---- MODULE Spec2Model ----
(***************************************************************************)
(* Timetable bot (TT.py): the grid loader load_timetable, the calendar     *)
(* table WEEK_START_DATES, the request parsers parse_date_input and        *)
(* parse_section, and the message handler handle_message.                  *)
(*                                                                         *)
(* Python strings are modelled as sequences of one-character strings, so   *)
(* strip/upper/lower/capitalize, substring tests and the regular           *)
(* expressions are computed character by character.  A datetime is a       *)
(* record [ord, tod]: ord is date.toordinal() and tod the time of day in   *)
(* seconds (hour, minute, second).                                         *)
(***************************************************************************)
EXTENDS Integers, Sequences, FiniteSets, TLC

VARIABLES pc, readable, df, i, current_week, timetable, timetable_data, text, now, target_date, section, week_key, reply

vars == <<pc, readable, df, i, current_week, timetable, timetable_data, text, now, target_date, section, week_key, reply>>

(***************************************************************************)
(* Python str methods                                                      *)
(***************************************************************************)
LowerLetters == <<"a","b","c","d","e","f","g","h","i","j","k","l","m","n","o","p","q","r","s","t","u","v","w","x","y","z">>

UpperLetters == <<"A","B","C","D","E","F","G","H","I","J","K","L","M","N","O","P","Q","R","S","T","U","V","W","X","Y","Z">>

Digits == <<"0","1","2","3","4","5","6","7","8","9">>

Whitespace == {" ", "\t"}

Punctuation == <<" ", "\t", "-", "(", ")", "/">>

Chars == {LowerLetters[k] : k \in 1..26} \cup {UpperLetters[k] : k \in 1..26} \cup {Digits[k] : k \in 1..10} \cup {Punctuation[k] : k \in 1..6}

\* c.upper() and c.lower() for every character of the alphabet
UpperMap == [c \in Chars |-> IF \E k \in 1..26 : LowerLetters[k] = c THEN UpperLetters[CHOOSE k \in 1..26 : LowerLetters[k] = c] ELSE c]

LowerMap == [c \in Chars |-> IF \E k \in 1..26 : UpperLetters[k] = c THEN LowerLetters[CHOOSE k \in 1..26 : UpperLetters[k] = c] ELSE c]

UpperChar(c) == UpperMap[c]

LowerChar(c) == LowerMap[c]

DigitSet == {Digits[k] : k \in 1..10}

UpperSet == {UpperLetters[k] : k \in 1..26}

IsDigit(c) == c \in DigitSet

DigitMap == [c \in DigitSet |-> (CHOOSE k \in 1..10 : Digits[k] = c) - 1]

DigitValue(c) == DigitMap[c]

IsUpperLetter(c) == c \in UpperSet

upper(s) == [k \in 1..Len(s) |-> UpperChar(s[k])]

lower(s) == [k \in 1..Len(s) |-> LowerChar(s[k])]

capitalize(s) == [k \in 1..Len(s) |-> IF k = 1 THEN UpperChar(s[k]) ELSE LowerChar(s[k])]

RECURSIVE lstrip(_)
lstrip(s) == IF s # <<>> /\ Head(s) \in Whitespace THEN lstrip(Tail(s)) ELSE s

RECURSIVE rstrip(_)
rstrip(s) == IF s # <<>> /\ s[Len(s)] \in Whitespace THEN rstrip(SubSeq(s, 1, Len(s) - 1)) ELSE s

strip(s) == rstrip(lstrip(s))

startswith(s, prefix) == Len(s) >= Len(prefix) /\ SubSeq(s, 1, Len(prefix)) = prefix

\* sub occurs in s at position p
MatchAt(s, p, sub) == p + Len(sub) - 1 <= Len(s) /\ SubSeq(s, p, p + Len(sub) - 1) = sub

\* Python: sub in s
contains(s, sub) == \E p \in 1..(Len(s) + 1) : MatchAt(s, p, sub)

\* Python: str(n) for n >= 0
RECURSIVE str(_)
str(n) == IF n < 10 THEN <<Digits[n + 1]>> ELSE str(n \div 10) \o <<Digits[(n % 10) + 1]>>

abs(n) == IF n < 0 THEN -n ELSE n

(***************************************************************************)
(* Python datetime                                                         *)
(***************************************************************************)
IsLeap(y) == (y % 4 = 0 /\ y % 100 # 0) \/ y % 400 = 0

DaysInMonth(y, m) == IF m = 2 THEN (IF IsLeap(y) THEN 29 ELSE 28) ELSE IF m \in {4, 6, 9, 11} THEN 30 ELSE 31

DaysBeforeYear(y) == (y - 1) * 365 + (y - 1) \div 4 - (y - 1) \div 100 + (y - 1) \div 400

RECURSIVE DaysBeforeMonth(_, _)
DaysBeforeMonth(y, m) == IF m = 1 THEN 0 ELSE DaysBeforeMonth(y, m - 1) + DaysInMonth(y, m - 1)

toordinal(y, m, d) == DaysBeforeYear(y) + DaysBeforeMonth(y, m) + d

\* datetime(y, m, d): midnight of that day
datetime(y, m, d) == [ord |-> toordinal(y, m, d), tod |-> 0]

\* dt + timedelta(days=n)
plus_days(dt, n) == [dt EXCEPT !.ord = @ + n]

\* dt.date()
date(dt) == dt.ord

\* dt.weekday(): Monday is 0
weekday_of(dt) == (dt.ord + 6) % 7

WeekdayNames == << <<"M","o","n","d","a","y">>, <<"T","u","e","s","d","a","y">>, <<"W","e","d","n","e","s","d","a","y">>, <<"T","h","u","r","s","d","a","y">>, <<"F","r","i","d","a","y">>, <<"S","a","t","u","r","d","a","y">>, <<"S","u","n","d","a","y">> >>

\* dt.strftime("%A")
strftime_A(dt) == WeekdayNames[weekday_of(dt) + 1]

\* Python None for a datetime, and for a string
NoDate == [ord |-> 0, tod |-> 0]

None == <<>>

(***************************************************************************)
(* DATE -> WEEK MAPPING                                                    *)
(***************************************************************************)
WEEK_START_DATES == << [w_num |-> -6, start |-> datetime(2026, 2, 16)], [w_num |-> -7, start |-> datetime(2026, 2, 23)], [w_num |-> -8, start |-> datetime(2026, 3, 2)], [w_num |-> -9, start |-> datetime(2026, 3, 9)], [w_num |-> -10, start |-> datetime(2026, 3, 16)], [w_num |-> -11, start |-> datetime(2026, 3, 23)] >>

StartDates == {WEEK_START_DATES[k].start : k \in 1..Len(WEEK_START_DATES)}

FIRST_DATE == CHOOSE d \in StartDates : \A e \in StartDates : d.ord <= e.ord

LAST_DATE == plus_days(CHOOSE d \in StartDates : \A e \in StartDates : d.ord >= e.ord, 6)

\* f"WEEK -{abs(w_num)}"
WeekKey(w_num) == <<"W","E","E","K"," ","-">> \o str(abs(w_num))

\* a week of six days: end = start + timedelta(days=5)
RECURSIVE week_scan_short(_, _)
week_scan_short(target, k) == IF k > Len(WEEK_START_DATES) THEN None ELSE IF date(WEEK_START_DATES[k].start) <= date(target) /\ date(target) <= date(plus_days(WEEK_START_DATES[k].start, 5)) THEN WeekKey(WEEK_START_DATES[k].w_num) ELSE week_scan_short(target, k + 1)

RECURSIVE week_scan(_, _)
week_scan(target, k) == IF k > Len(WEEK_START_DATES) THEN None ELSE IF date(WEEK_START_DATES[k].start) <= date(target) /\ date(target) <= date(plus_days(WEEK_START_DATES[k].start, 6)) THEN WeekKey(WEEK_START_DATES[k].w_num) ELSE week_scan(target, k + 1)

get_week_key_for_date(target) == week_scan(target, 1)

(***************************************************************************)
(* Python dict                                                             *)
(***************************************************************************)
EmptyDict == <<>>

dict_get(d, k, default) == IF k \in DOMAIN d THEN d[k] ELSE default

dict_set(d, k, v) == [x \in (DOMAIN d) \cup {k} |-> IF x = k THEN v ELSE d[x]]

(***************************************************************************)
(* LOAD TIMETABLE                                                          *)
(*                                                                         *)
(* df is the sheet as a sequence of rows of 10 cells.  A day entry         *)
(* (day_data) is the record [special, secs]: special is the value under    *)
(* the key "special" (None when the key is absent; a stored label is never *)
(* empty), secs the dict section -> slot index -> list of subjects.        *)
(***************************************************************************)
WEEK == <<"W","E","E","K">>

SPECIAL_LABELS == { <<"H","O","L","I">>, <<"I","D","-","U","L","-","F","I","T","R">>, <<"E","N","D"," ","T","E","R","M"," ","E","X","A","M">> }

SectionChars == {"1", "2", "3", "4", "5", "6"}

EmptyDay == [special |-> None, secs |-> EmptyDict]

\* row = [str(df.iloc[i, j]).strip() for j in range(10)]
row_of(r) == [j \in 1..10 |-> strip(df[r][j])]

\* slots = row[3:7]
slots_of(row) == SubSeq(row, 4, 7)

\* the first slot whose upper().strip() is a special label, stripped; "" if none
RECURSIVE find_special(_, _)
find_special(slots, k) == IF k > Len(slots) THEN <<>> ELSE IF upper(strip(slots[k])) \in SPECIAL_LABELS THEN strip(slots[k]) ELSE find_special(slots, k + 1)

\* re.split(r'\s*/\s*', content) followed by e.strip(): the whitespace the
\* delimiter swallows is whitespace strip() removes as well
RECURSIVE split_slash(_, _)
split_slash(content, acc) == IF content = <<>> THEN <<strip(acc)>> ELSE IF Head(content) = "/" THEN <<strip(acc)>> \o split_slash(Tail(content), <<>>) ELSE split_slash(Tail(content), Append(acc, Head(content)))

\* entries = [e.strip() for e in re.split(...) if e.strip()]
entries_of(content) == SelectSeq(split_slash(content, <<>>), LAMBDA e : e # <<>>)

RECURSIVE leading_upper(_, _)
leading_upper(entry, k) == IF k <= Len(entry) /\ IsUpperLetter(entry[k]) THEN leading_upper(entry, k + 1) ELSE k - 1

\* re.match(r'^([A-Z]+)\(S?(\d+)\)$', entry): [ok, subj = group(1), sec = group(2)]
entry_match(entry) == LET n == Len(entry)
                          u == leading_upper(entry, 1)
                          d == IF u + 2 <= n /\ entry[u + 2] = "S" THEN u + 3 ELSE u + 2
                      IN IF u >= 1 /\ u + 1 <= n /\ entry[u + 1] = "(" /\ entry[n] = ")" /\ d <= n - 1 /\ \A k \in d..(n - 1) : IsDigit(entry[k]) THEN [ok |-> TRUE, subj |-> SubSeq(entry, 1, u), sec |-> SubSeq(entry, d, n - 1)] ELSE [ok |-> FALSE, subj |-> <<>>, sec |-> <<>>]

\* sec in ["1","2","3","4","5","6"]
sec_is_valid(sec) == Len(sec) = 1 /\ sec[1] \in SectionChars

\* sec_dict[slot_idx] = [subj]: the list replaced, not extended
append_subject_overwrite(day_data, sec, slot_idx, subj) == [day_data EXCEPT !.secs = dict_set(@, sec, dict_set(dict_get(day_data.secs, sec, EmptyDict), slot_idx, <<subj>>))]

\* sec_dict = day_data.setdefault(sec, {}); sec_dict.setdefault(slot_idx, []).append(subj)
append_subject(day_data, sec, slot_idx, subj) == LET sec_dict == dict_get(day_data.secs, sec, EmptyDict) IN [day_data EXCEPT !.secs = dict_set(@, sec, dict_set(sec_dict, slot_idx, dict_get(sec_dict, slot_idx, <<>>) \o <<subj>>))]

add_entry(day_data, slot_idx, entry) == LET m == entry_match(entry) IN IF m.ok /\ sec_is_valid(m.sec) THEN append_subject(day_data, m.sec[1], slot_idx, m.subj) ELSE day_data

RECURSIVE add_entries(_, _, _)
add_entries(day_data, slot_idx, entries) == IF entries = <<>> THEN day_data ELSE add_entries(add_entry(day_data, slot_idx, Head(entries)), slot_idx, Tail(entries))

\* for slot_idx, content in enumerate(slots, 1): ...
RECURSIVE parse_slots(_, _, _)
parse_slots(day_data, slots, slot_idx) == IF slot_idx > Len(slots) THEN day_data ELSE parse_slots(add_entries(day_data, slot_idx, entries_of(slots[slot_idx])), slots, slot_idx + 1)

IsWeekHeader(row) == startswith(row[1], WEEK)

IsWeekday(day) == \E k \in 1..7 : WeekdayNames[k] = day

\* len(row) < 3 or not row[2]; not current_week or day not in the weekday names
IsSkippedRow(row) == row[3] = <<>> \/ current_week = None \/ ~IsWeekday(capitalize(row[3]))

\* timetable[current_week][day] = day_data (day_data is the dict stored by setdefault)
store_day(day, day_data) == dict_set(timetable, current_week, dict_set(timetable[current_week], day, day_data))

\* day_data["special"] = special
set_special(day, day_data, special) == store_day(day, [day_data EXCEPT !.special = special])

\* one pass of the loop body: the new timetable and current_week
day_row(day, day_data, slots, special) == IF special # <<>> THEN set_special(day, day_data, special) ELSE store_day(day, parse_slots(day_data, slots, 1))

load_row(row) == IF IsWeekHeader(row) THEN [timetable |-> dict_set(timetable, row[1], EmptyDict), current_week |-> row[1]] ELSE IF IsSkippedRow(row) THEN [timetable |-> timetable, current_week |-> current_week] ELSE [timetable |-> day_row(capitalize(row[3]), dict_get(timetable[current_week], capitalize(row[3]), EmptyDay), slots_of(row), find_special(slots_of(row), 1)), current_week |-> current_week]

RowKind(row) == IF IsWeekHeader(row) THEN "header" ELSE IF IsSkippedRow(row) THEN "skip" ELSE IF find_special(slots_of(row), 1) # <<>> THEN "special" ELSE "slots"

unchanged_request == UNCHANGED <<text, now, target_date, section, week_key, reply>>

\* pd.read_excel succeeds
read_excel == /\ pc = "read"
              /\ readable
              /\ timetable' = EmptyDict
              /\ current_week' = None
              /\ i' = 1
              /\ pc' = "rows"
              /\ UNCHANGED <<readable, df, timetable_data>>
              /\ unchanged_request

\* no try/except: the exception leaves the module and the process ends
load_failed_raises == /\ pc = "read"
                      /\ ~readable
                      /\ pc' = "crashed"
                      /\ UNCHANGED <<readable, df, i, current_week, timetable, timetable_data, text, now, target_date, section, week_key, reply>>

\* except Exception: return {}
load_failed == /\ pc = "read"
               /\ ~readable
               /\ timetable_data' = EmptyDict
               /\ pc' = "serve"
               /\ UNCHANGED <<readable, df, i, current_week, timetable>>
               /\ unchanged_request

\* the assignments of one pass of the loop over the rows
loop_body(row) == /\ \E r \in {load_row(row)} : timetable' = r.timetable /\ current_week' = r.current_week
                  /\ i' = i + 1
                  /\ UNCHANGED <<pc, readable, df, timetable_data>>
                  /\ unchanged_request

\* if row[0].startswith("WEEK"): ...; continue
week_header_row == /\ pc = "rows"
                   /\ i <= Len(df)
                   /\ RowKind(row_of(i)) = "header"
                   /\ loop_body(row_of(i))

\* the two tests that skip a row
skipped_row == /\ pc = "rows"
               /\ i <= Len(df)
               /\ RowKind(row_of(i)) = "skip"
               /\ loop_body(row_of(i))

\* if special: day_data["special"] = special; continue
special_row == /\ pc = "rows"
               /\ i <= Len(df)
               /\ RowKind(row_of(i)) = "special"
               /\ loop_body(row_of(i))

\* the normal slots of a day row
slots_row == /\ pc = "rows"
             /\ i <= Len(df)
             /\ RowKind(row_of(i)) = "slots"
             /\ loop_body(row_of(i))

\* return timetable; timetable_data = load_timetable()
load_return == /\ pc = "rows"
               /\ i > Len(df)
               /\ timetable_data' = timetable
               /\ pc' = "serve"
               /\ UNCHANGED <<readable, df, i, current_week, timetable>>
               /\ unchanged_request

(***************************************************************************)
(* Slot times per group, venues                                            *)
(***************************************************************************)
SLOT_TIMES == [A |-> <<"10:30 - 12:00 hrs", "12:15 - 13:45 hrs", "14:45 - 16:15 hrs", "16:30 - 18:00 hrs">>, B |-> <<"10:00 - 11:30 hrs", "11:45 - 13:15 hrs", "14:15 - 15:45 hrs", "16:30 - 18:00 hrs">>]

VENUES == [s \in SectionChars |-> CASE s = "1" -> "Room-101" [] s = "2" -> "Room-102" [] s = "3" -> "Room-103" [] s = "4" -> "Room-G07" [] s = "5" -> "Room-201" [] s = "6" -> "Room-G02"]

(***************************************************************************)
(* HELPERS                                                                 *)
(***************************************************************************)
TODAY == <<"t","o","d","a","y">>

TOMORROW == <<"t","o","m","o","r","r","o","w">>

YESTERDAY == <<"y","e","s","t","e","r","d","a","y">>

\* \d{4}-\d{2}-\d{2} matches at position p
IsoAt(s, p) == /\ p + 9 <= Len(s)
               /\ \A k \in {0, 1, 2, 3, 5, 6, 8, 9} : IsDigit(s[p + k])
               /\ s[p + 4] = "-"
               /\ s[p + 7] = "-"

\* re.search(r'(\d{4}-\d{2}-\d{2})', text): group(1) of the leftmost match, None if none
RECURSIVE iso_scan(_, _)
iso_scan(s, p) == IF p > Len(s) THEN None ELSE IF IsoAt(s, p) THEN SubSeq(s, p, p + 9) ELSE iso_scan(s, p + 1)

iso_search(s) == iso_scan(s, 1)

RECURSIVE int(_)
int(digits) == IF digits = <<>> THEN 0 ELSE int(SubSeq(digits, 1, Len(digits) - 1)) * 10 + DigitValue(digits[Len(digits)])

\* datetime(y, m, d) inside try/except: NoDate when it raises ValueError
checked_datetime(y, m, d) == IF y >= 1 /\ m \in 1..12 /\ d >= 1 /\ d <= DaysInMonth(y, m) THEN datetime(y, m, d) ELSE NoDate

\* datetime.strptime(token, "%Y-%m-%d") for a token \d{4}-\d{2}-\d{2}
strptime(token) == checked_datetime(int(SubSeq(token, 1, 4)), int(SubSeq(token, 6, 7)), int(SubSeq(token, 9, 10)))

\* m = re.search(...); if m: try: return strptime(m.group(1)) except: pass; return None
iso_date(token) == IF token = None THEN NoDate ELSE strptime(token)

\* the ISO token tried before the keywords
parse_lowered_iso_first(t, now_) == IF iso_date(iso_search(t)) # NoDate THEN iso_date(iso_search(t)) ELSE IF contains(t, TODAY) THEN now_ ELSE IF contains(t, TOMORROW) THEN plus_days(now_, 1) ELSE IF contains(t, YESTERDAY) THEN plus_days(now_, -1) ELSE NoDate

\* the body of parse_date_input after text = text.lower().strip()
parse_lowered(t, now_) == IF contains(t, TODAY) THEN now_ ELSE IF contains(t, TOMORROW) THEN plus_days(now_, 1) ELSE IF contains(t, YESTERDAY) THEN plus_days(now_, -1) ELSE iso_date(iso_search(t))

parse_date_input(txt, now_) == parse_lowered(strip(lower(txt)), now_)

RECURSIVE skip_ws(_, _)
skip_ws(s, p) == IF p <= Len(s) /\ s[p] \in Whitespace THEN skip_ws(s, p + 1) ELSE p

SectionTokens == << <<"s">>, <<"s","e","c">>, <<"s","e","c","t","i","o","n">> >>

\* one alternative of (?:s|sec|section) followed by \s*(\d) matches at p; low is s lower-cased (re.I)
SectionAltAt(s, low, p, alt) == MatchAt(low, p, alt) /\ skip_ws(s, p + Len(alt)) <= Len(s) /\ IsDigit(s[skip_ws(s, p + Len(alt))])

\* group(1) of the match at p, "" if the pattern does not match at p: the alternatives are tried in order
SectionDigitAt(s, low, p) == IF low[p] # "s" THEN "" ELSE IF SectionAltAt(s, low, p, SectionTokens[1]) THEN s[skip_ws(s, p + 1)] ELSE IF SectionAltAt(s, low, p, SectionTokens[2]) THEN s[skip_ws(s, p + 3)] ELSE IF SectionAltAt(s, low, p, SectionTokens[3]) THEN s[skip_ws(s, p + 7)] ELSE ""

\* re.search(r'(?:s|sec|section)\s*(\d)', text, re.I): the digit of the leftmost match, "" if none
RECURSIVE section_scan(_, _, _)
section_scan(s, low, p) == IF p > Len(s) THEN "" ELSE IF SectionDigitAt(s, low, p) # "" THEN SectionDigitAt(s, low, p) ELSE section_scan(s, low, p + 1)

section_search(s) == section_scan(s, lower(s), 1)

\* if m: sec = m.group(1); if sec in "123456": return sec; return None
checked_section(sec) == IF sec \in SectionChars THEN sec ELSE ""

parse_section(txt) == checked_section(section_search(txt))

(***************************************************************************)
(* BOT HANDLERS                                                            *)
(***************************************************************************)
day_map == << [name |-> <<"m","o","n","d","a","y">>, offset |-> 0], [name |-> <<"m","o","n">>, offset |-> 0], [name |-> <<"t","u","e","s","d","a","y">>, offset |-> 1], [name |-> <<"t","u","e">>, offset |-> 1], [name |-> <<"w","e","d","n","e","s","d","a","y">>, offset |-> 2], [name |-> <<"w","e","d">>, offset |-> 2], [name |-> <<"t","h","u","r","s","d","a","y">>, offset |-> 3], [name |-> <<"t","h","u">>, offset |-> 3], [name |-> <<"t","h","u","r">>, offset |-> 3], [name |-> <<"f","r","i","d","a","y">>, offset |-> 4], [name |-> <<"f","r","i">>, offset |-> 4], [name |-> <<"s","a","t","u","r","d","a","y">>, offset |-> 5], [name |-> <<"s","a","t">>, offset |-> 5], [name |-> <<"s","u","n","d","a","y">>, offset |-> 6], [name |-> <<"s","u","n">>, offset |-> 6] >>

\* the offset without the roll forward to next week
days_to_add_same_day(offset, today_weekday) == (offset - today_weekday) % 7

\* days_to_add = (offset - today_weekday) % 7; if days_to_add == 0 ...: days_to_add = 7
days_to_add(offset, today_weekday) == IF (offset - today_weekday) % 7 = 0 THEN 7 ELSE (offset - today_weekday) % 7

\* for name, offset in day_map.items(): if name in text.lower(): ...; break
RECURSIVE day_name_scan(_, _, _)
day_name_scan(low, now_, k) == IF k > Len(day_map) THEN NoDate ELSE IF contains(low, day_map[k].name) THEN plus_days(now_, days_to_add(day_map[k].offset, weekday_of(now_))) ELSE day_name_scan(low, now_, k + 1)

\* if not target_date: the day-name fallback
date_or_day_name(txt, now_, parsed) == IF parsed # NoDate THEN parsed ELSE day_name_scan(lower(txt), now_, 1)

\* target_date = parse_date_input(text, now), then the fallback
resolve_date(txt, now_) == date_or_day_name(txt, now_, parse_date_input(txt, now_))

\* target_date.replace(hour=now.hour, minute=now.minute, second=now.second)
replace_time(target, now_) == [target EXCEPT !.tod = now_.tod]

\* target_date.date() < FIRST_DATE.date()
before_first(target) == date(target) < date(FIRST_DATE)

\* target_date > LAST_DATE: the datetimes compared, the time of day included
after_last_datetime(target) == target.ord > LAST_DATE.ord \/ (target.ord = LAST_DATE.ord /\ target.tod > LAST_DATE.tod)

\* target_date.date() > LAST_DATE.date()
after_last(target) == date(target) > date(LAST_DATE)

\* group = "A" if section in ["1","3","5"] else "B"; times = SLOT_TIMES[group]
times_of(sec) == IF sec \in {"1", "3", "5"} THEN SLOT_TIMES.A ELSE SLOT_TIMES.B

\* the list lines built by the loop over slots 1..4; an empty subjects list stands for "Free"
lines_of(sec_data, times) == [slot \in 1..4 |-> [time |-> times[slot], subjects |-> dict_get(sec_data, slot, <<>>)]]

has_class_of(sec_data) == \E slot \in 1..4 : dict_get(sec_data, slot, <<>>) # <<>>

NoReply == [kind |-> "None", date |-> NoDate, weekday |-> <<>>, label |-> <<>>, section |-> "", venue |-> "", all_free |-> FALSE, lines |-> <<>>]

\* the message for a day without a special marker
regular_reply(sec_data, target, sec) == [NoReply EXCEPT !.kind = "RegularDay", !.date = target, !.weekday = strftime_A(target), !.section = sec, !.venue = VENUES[sec], !.all_free = ~has_class_of(sec_data), !.lines = IF has_class_of(sec_data) THEN lines_of(sec_data, times_of(sec)) ELSE <<>>]

\* the section's data consulted before the special marker
day_reply_section_first(day_data, target, sec) == IF sec \in DOMAIN day_data.secs THEN regular_reply(day_data.secs[sec], target, sec) ELSE IF day_data.special # None THEN [NoReply EXCEPT !.kind = "SpecialDay", !.date = target, !.weekday = strftime_A(target), !.label = day_data.special] ELSE regular_reply(EmptyDict, target, sec)

\* if "special" in day_data: ...; sec_data = day_data.get(section, {})
day_reply(day_data, target, sec) == IF day_data.special # None THEN [NoReply EXCEPT !.kind = "SpecialDay", !.date = target, !.weekday = strftime_A(target), !.label = day_data.special] ELSE regular_reply(dict_get(day_data.secs, sec, EmptyDict), target, sec)

\* timetable_data.get(week_key, {}) in place of the membership test
week_reply_default_week(wk, target, sec) == IF wk = None THEN [NoReply EXCEPT !.kind = "NoData"] ELSE day_reply(dict_get(dict_get(timetable_data, wk, EmptyDict), strftime_A(target), EmptyDay), target, sec)

\* if not week_key or week_key not in timetable_data: ...; day_data = timetable_data[week_key].get(weekday, {})
week_reply(wk, target, sec) == IF wk = None \/ wk \notin DOMAIN timetable_data THEN [NoReply EXCEPT !.kind = "NoData"] ELSE day_reply(dict_get(timetable_data[wk], strftime_A(target), EmptyDay), target, sec)

Locals(t, now_, target, sec, wk, rep) == [text |-> t, now |-> now_, target_date |-> target, section |-> sec, week_key |-> wk, reply |-> rep]

\* from the range tests on, for the date with the time replaced
handle_in_range(t, now_, target, sec, wk) == Locals(t, now_, target, sec, wk, week_reply(wk, target, sec))

handle_query(t, now_, target, sec) == IF before_first(target) THEN Locals(t, now_, target, sec, None, [NoReply EXCEPT !.kind = "TooEarly"]) ELSE IF after_last(target) THEN Locals(t, now_, target, sec, None, [NoReply EXCEPT !.kind = "TooLate"]) ELSE handle_in_range(t, now_, target, sec, get_week_key_for_date(target))

\* section = parse_section(text); if not section: ...
handle_section(t, now_, target, sec) == IF sec = "" THEN Locals(t, now_, target, "", None, [NoReply EXCEPT !.kind = "MissingSection"]) ELSE handle_query(t, now_, replace_time(target, now_), sec)

\* if not target_date: ...
handle_date(t, now_, target) == IF target = NoDate THEN Locals(t, now_, NoDate, "", None, [NoReply EXCEPT !.kind = "MissingDate"]) ELSE handle_section(t, now_, target, parse_section(t))

\* text = update.message.text.strip(); if not text: return
handle_text(t, now_) == IF t = <<>> THEN Locals(<<>>, NoDate, NoDate, "", None, NoReply) ELSE handle_date(t, now_, resolve_date(t, now_))

\* the handler's locals at return and its reply
handle(txt, now_) == handle_text(strip(txt), now_)

unchanged_loader == UNCHANGED <<readable, df, i, current_week, timetable, timetable_data>>

fresh_locals == text' = <<>> /\ now' = NoDate /\ target_date' = NoDate /\ section' = "" /\ week_key' = None

start == /\ pc = "serve"
         /\ reply' = [NoReply EXCEPT !.kind = "Start"]
         /\ fresh_locals
         /\ pc' = "replied"
         /\ unchanged_loader

help_command == /\ pc = "serve"
                /\ reply' = [NoReply EXCEPT !.kind = "Help"]
                /\ fresh_locals
                /\ pc' = "replied"
                /\ unchanged_loader

handle_message(txt, now_) == /\ pc = "serve"
                             /\ \E h \in {handle(txt, now_)} : text' = h.text /\ now' = h.now /\ target_date' = h.target_date /\ section' = h.section /\ week_key' = h.week_key /\ reply' = h.reply
                             /\ pc' = "replied"
                             /\ unchanged_loader

\* the handler has returned; the application waits for the next update with nothing kept
next_update == /\ pc = "replied"
               /\ reply' = NoReply
               /\ fresh_locals
               /\ pc' = "serve"
               /\ unchanged_loader

(***************************************************************************)
(* Inputs: sheets, request texts, clock values                             *)
(***************************************************************************)
\* a week marker row
RowWeek6 == <<<<"W","E","E","K"," ","-","6">>, <<>>, <<>>, <<>>, <<>>, <<>>, <<>>, <<>>, <<>>, <<>>>>

\* a week marker row that also carries a day name and a slot cell
RowWeek7 == <<<<" ","W","E","E","K"," ","-","7">>, <<>>, <<"M","o","n","d","a","y">>, <<"H","O","L","I">>, <<>>, <<>>, <<>>, <<>>, <<>>, <<>>>>

\* a Monday row with two entries in one cell
RowExample == <<<<>>, <<>>, <<"M","o","n","d","a","y">>, <<"M","A","T","H","(","1",")">>, <<>>, <<"P","H","Y","(","2",")","/","C","H","E","M","(","1",")">>, <<>>, <<>>, <<>>, <<>>>>

\* a Monday row with a lower-case special label after a class, and a second label
RowHoli == <<<<>>, <<>>, <<"M","o","n","d","a","y">>, <<"M","A","T","H","(","1",")">>, <<" ","h","o","l","i"," ">>, <<>>, <<"E","N","D"," ","T","E","R","M"," ","E","X","A","M">>, <<>>, <<>>, <<>>>>

\* a Monday row (upper-case day name) with another special label
RowFitr == <<<<>>, <<>>, <<"M","O","N","D","A","Y">>, <<>>, <<"I","D","-","U","L","-","F","I","T","R">>, <<>>, <<>>, <<>>, <<>>, <<>>>>

\* a Monday row with a repeated subject, entries that do not match, and blank entries
RowMixed == <<<<>>, <<>>, <<"m","o","n","d","a","y">>, <<"M","A","T","H","(","S","1",")"," ","/"," ","M","A","T","H","(","1",")">>, <<"p","h","y","(","1",")","/","B","I","O","(","1","2",")","/","X","(","7",")","/","E","N","G">>, <<>>, <<"C","S","(","2",")","/","/">>, <<>>, <<>>, <<>>>>

\* a Tuesday row
RowTuesday == <<<<>>, <<>>, <<"T","u","e","s","d","a","y">>, <<>>, <<"A","R","T","(","3",")">>, <<>>, <<>>, <<>>, <<>>, <<>>>>

\* a row whose day cell is not a weekday name
RowFunday == <<<<>>, <<>>, <<"F","u","n","d","a","y">>, <<"M","A","T","H","(","1",")">>, <<>>, <<>>, <<>>, <<>>, <<>>, <<>>>>

RowPool == {RowWeek6, RowWeek7, RowExample, RowHoli, RowFitr, RowMixed, RowTuesday, RowFunday}

MaxRows == 3

RECURSIVE SeqsUpTo(_, _)
SeqsUpTo(S, n) == IF n = 0 THEN {<<>>} ELSE LET shorter == SeqsUpTo(S, n - 1) IN shorter \cup {Append(g, r) : g \in {h \in shorter : Len(h) = n - 1}, r \in S}

Sheets == SeqsUpTo(RowPool, MaxRows)

\* one sheet that takes every branch of the loader
QuerySheets == {<<RowFunday, RowWeek6, RowExample, RowWeek7, RowHoli>>}

DateParts == {<<"t","o","d","a","y">>, <<"T","o","m","o","r","r","o","w">>, <<"y","e","s","t","e","r","d","a","y">>, <<"2","0","2","6","-","0","2","-","1","5">>, <<"2","0","2","6","-","0","2","-","1","6">>, <<"2","0","2","6","-","0","2","-","2","3">>, <<"2","0","2","6","-","0","3","-","2","9">>, <<"2","0","2","6","-","0","3","-","3","0">>, <<"2","0","2","6","-","0","2","-","3","0">>, <<"2","0","2","5","-","1","2","-","3","1">>, <<"m","o","n","d","a","y">>, <<"t","u","e","s","d","a","y">>, <<"w","e","d">>, <<"t","h","u","r">>, <<"F","r","i","d","a","y">>, <<"s","a","t","u","r","d","a","y">>, <<"s","u","n">>, <<"h","e","l","l","o">>, <<"t","o","d","a","y"," ","t","o","m","o","r","r","o","w">>, <<"t","o","m","o","r","r","o","w"," ","y","e","s","t","e","r","d","a","y">>, <<"2","0","2","6","-","0","3","-","2","9"," ","t","o","d","a","y">>, <<"2","0","2","6","-","0","2","-","3","0"," ","f","r","i">>, <<"2","0","2","6","-","0","2","-","1","6"," ","f","r","i">>, <<"s","a","t"," ","t","u","e">>, <<>>}

SectionParts == {<<"s","1">>, <<"s","2">>, <<"S","3">>, <<"s","e","c","t","i","o","n"," ","4">>, <<"s","e","c","5">>, <<"s"," ","6">>, <<"s","0">>, <<"s","7">>, <<"s","x">>, <<"s","1","2">>, <<>>, <<"3">>}

Join(d, sec) == IF sec = <<>> THEN d ELSE IF d = <<>> THEN sec ELSE d \o <<" ">> \o sec

QueryTexts == {Join(d, sec) : d \in DateParts, sec \in SectionParts}

\* requests whose date depends on the clock only
ClockTexts == {<<"t","o","d","a","y"," ","s","1">>, <<"T","o","m","o","r","r","o","w"," ","s","2">>, <<"y","e","s","t","e","r","d","a","y"," ","S","3">>, <<"w","e","d"," ","s","e","c","t","i","o","n"," ","4">>, <<"s","u","n"," ","s","e","c","5">>, <<"F","r","i","d","a","y"," ","s"," ","6">>, <<"m","o","n","d","a","y"," ","s","1">>}

SheetTexts == {Join(d, sec) : d \in {<<"2","0","2","6","-","0","2","-","1","6">>, <<"2","0","2","6","-","0","2","-","1","7">>, <<"2","0","2","6","-","0","2","-","2","3">>, <<"2","0","2","6","-","0","3","-","0","2">>, <<"t","o","d","a","y">>}, sec \in {<<"s","1">>, <<"s","2">>, <<"s","3">>, <<"s","x">>}}

TimesOfDay == {0, 86399}

MaxOut == 8

\* every day of the term and MaxOut days on either side
QueryNows == {[ord |-> o, tod |-> t] : o \in (FIRST_DATE.ord - MaxOut)..(LAST_DATE.ord + MaxOut), t \in TimesOfDay}

\* the days around the first and the last day of the term, every weekday among them
EdgeNows == {[ord |-> o, tod |-> t] : o \in ((FIRST_DATE.ord - 2)..(FIRST_DATE.ord + 5)) \cup ((LAST_DATE.ord - 1)..(LAST_DATE.ord + 2)), t \in TimesOfDay}

QueryInputs == (QueryTexts \X EdgeNows) \cup (ClockTexts \X QueryNows)

SheetNows == {[ord |-> FIRST_DATE.ord, tod |-> 86399], [ord |-> LAST_DATE.ord + 1, tod |-> 0]}

(***************************************************************************)
(* Specifications                                                          *)
(***************************************************************************)
InitLocals == /\ pc = "read"
              /\ i = 0
              /\ current_week = None
              /\ timetable = EmptyDict
              /\ timetable_data = EmptyDict
              /\ text = <<>>
              /\ now = NoDate
              /\ target_date = NoDate
              /\ section = ""
              /\ week_key = None
              /\ reply = NoReply

\* the sheet is readable and holds any rows, or cannot be read
Init == /\ InitLocals
        /\ \/ readable = TRUE /\ df \in Sheets
           \/ readable = FALSE /\ df = <<>>

InitQuery == /\ InitLocals
             /\ \/ readable = TRUE /\ df \in QuerySheets
                \/ readable = FALSE /\ df = <<>>

load_timetable == read_excel \/ load_failed \/ week_header_row \/ skipped_row \/ special_row \/ slots_row \/ load_return

Next == load_timetable \/ start \/ help_command \/ next_update \/ \E txt \in SheetTexts, now_ \in SheetNows : handle_message(txt, now_)

NextQuery == load_timetable \/ start \/ help_command \/ next_update \/ \E inp \in QueryInputs : handle_message(inp[1], inp[2])

Spec == Init /\ [][Next]_vars

SpecQuery == InitQuery /\ [][NextQuery]_vars

TypeOK == pc \in {"read", "rows", "serve", "replied", "crashed"} /\ reply.kind \in {"None", "Start", "Help", "MissingDate", "MissingSection", "TooEarly", "TooLate", "NoData", "SpecialDay", "RegularDay"}

(***************************************************************************)
(* Properties                                                              *)
(*                                                                         *)
(* What the properties expect is written out independently of the          *)
(* definitions above: the term as ordinals, the week keys, the ISO tokens  *)
(* and the subjects of the pool rows as literals.                          *)
(***************************************************************************)
\* 2026-02-16 (a Monday) and 2026-03-29 as date.toordinal()
TermFirst == 739663

TermLast == 739704

ExpectedWeekKeys == << <<"W","E","E","K"," ","-","6">>, <<"W","E","E","K"," ","-","7">>, <<"W","E","E","K"," ","-","8">>, <<"W","E","E","K"," ","-","9">>, <<"W","E","E","K"," ","-","1","0">>, <<"W","E","E","K"," ","-","1","1">> >>

Abbreviations == << <<"m","o","n">>, <<"t","u","e">>, <<"w","e","d">>, <<"t","h","u">>, <<"f","r","i">>, <<"s","a","t">>, <<"s","u","n">> >>

\* the ISO tokens of the request texts with their ordinals, 0 for an invalid calendar date
IsoCases == << [token |-> <<"2","0","2","6","-","0","2","-","1","5">>, ord |-> 739662], [token |-> <<"2","0","2","6","-","0","2","-","1","6">>, ord |-> 739663], [token |-> <<"2","0","2","6","-","0","2","-","1","7">>, ord |-> 739664], [token |-> <<"2","0","2","6","-","0","2","-","2","3">>, ord |-> 739670], [token |-> <<"2","0","2","6","-","0","3","-","0","2">>, ord |-> 739677], [token |-> <<"2","0","2","6","-","0","3","-","2","9">>, ord |-> 739704], [token |-> <<"2","0","2","6","-","0","3","-","3","0">>, ord |-> 739705], [token |-> <<"2","0","2","5","-","1","2","-","3","1">>, ord |-> 739616], [token |-> <<"2","0","2","6","-","0","2","-","3","0">>, ord |-> 0] >>

WeekdayOfOrd(o) == (o - TermFirst) % 7

\* the handler replied to a request whose date and section both resolved
Answered == pc = "replied" /\ section \in SectionChars

InTerm == TermFirst <= target_date.ord /\ target_date.ord <= TermLast

NamedWeekdays(low) == {w \in 0..6 : contains(low, Abbreviations[w + 1])}

\* C1: a resolved query with a target date inside 2026-02-16 .. 2026-03-29
\* (both ends included) is never answered OutOfRange; every earlier date is
\* answered too_early and every later date too_late, whatever the time of day
\* copied from now.
C1_BoundaryInclusion == Answered => /\ (InTerm => reply.kind \notin {"TooEarly", "TooLate"})
                                    /\ (target_date.ord < TermFirst => reply.kind = "TooEarly")
                                    /\ (target_date.ord > TermLast => reply.kind = "TooLate")

C1_Witness == Answered /\ target_date = [ord |-> TermLast, tod |-> 86399] /\ reply.kind = "NoData"

SpansContaining(d) == {k \in 1..Len(WEEK_START_DATES) : WEEK_START_DATES[k].start.ord <= d /\ d <= WEEK_START_DATES[k].start.ord + 6}

\* C2: get_week_key_for_date returns the key of the configured week whose
\* 7-day span holds the date; no date lies in two spans; every date of the
\* term gets exactly one key and every date outside it gets none.
C2_WeekForTotal == (pc = "replied" /\ target_date # NoDate) => /\ \A k \in SpansContaining(target_date.ord) : get_week_key_for_date(target_date) = ExpectedWeekKeys[k]
                                                              /\ Cardinality(SpansContaining(target_date.ord)) <= 1
                                                              /\ (InTerm => Cardinality(SpansContaining(target_date.ord)) = 1 /\ get_week_key_for_date(target_date) = ExpectedWeekKeys[((target_date.ord - TermFirst) \div 7) + 1])
                                                              /\ ((Answered /\ InTerm) => week_key = ExpectedWeekKeys[((target_date.ord - TermFirst) \div 7) + 1])
                                                              /\ (~InTerm => get_week_key_for_date(target_date) = None)

C2_Witness == Answered /\ target_date.ord = 739697 /\ week_key = <<"W","E","E","K"," ","-","1","0">>

RECURSIVE LastWord(_)
LastWord(s) == IF \E k \in 1..Len(s) : s[k] \in Whitespace THEN LastWord(Tail(s)) ELSE s

\* the section designator of a request: its last word without a leading section, sec or s
Designator(s) == IF startswith(lower(LastWord(s)), SectionTokens[3]) THEN SubSeq(LastWord(s), 8, Len(LastWord(s))) ELSE IF startswith(lower(LastWord(s)), SectionTokens[2]) THEN SubSeq(LastWord(s), 4, Len(LastWord(s))) ELSE IF startswith(lower(LastWord(s)), SectionTokens[1]) THEN SubSeq(LastWord(s), 2, Len(LastWord(s))) ELSE LastWord(s)

\* C5: a request whose section designator is not one of 1..6 (s0, s7, sx,
\* s12) is answered with the missing-section clarification, and every query
\* that reaches the resolver has a section in 1..6.
C5_SectionValidity == (pc = "replied" /\ target_date # NoDate) => /\ (~(Len(Designator(text)) = 1 /\ Designator(text)[1] \in SectionChars) => reply.kind = "MissingSection")
                                                                  /\ (reply.kind \in {"TooEarly", "TooLate", "NoData", "SpecialDay", "RegularDay"} => section \in SectionChars)

\* C7 as stated: after a failed read every query, whatever its target date, is answered NoData.
C7_EveryQueryNoData == (~readable /\ Answered) => reply.kind = "NoData"

\* C7: when the sheet cannot be read the loader returns an empty timetable
\* and the bot serves; from then on every query with a target date inside the
\* term is answered NoData, and a date outside the term is still answered
\* OutOfRange.
C7_DegradedStart == (~readable /\ pc # "read") => /\ pc \in {"serve", "replied"}
                                                  /\ DOMAIN timetable_data = {}
                                                  /\ (Answered => reply.kind = (IF target_date.ord < TermFirst THEN "TooEarly" ELSE IF target_date.ord > TermLast THEN "TooLate" ELSE "NoData"))

C7_Witness == ~readable /\ Answered /\ InTerm /\ reply.kind = "NoData" /\ DOMAIN timetable_data = {}

IsoNamed(low) == {c \in 1..Len(IsoCases) : contains(low, IsoCases[c].token)}

\* C8: the date comes from the first strategy that succeeds, in the order
\* today, tomorrow, yesterday, ISO token, weekday name; an ISO token with
\* invalid calendar values fails silently and the weekday name is tried; when
\* none succeeds the reply is the missing-date clarification.
C8_StrategyPriority == (pc = "replied" /\ text # <<>>) => IF contains(lower(text), TODAY) THEN target_date.ord = now.ord ELSE IF contains(lower(text), TOMORROW) THEN target_date.ord = now.ord + 1 ELSE IF contains(lower(text), YESTERDAY) THEN target_date.ord = now.ord - 1 ELSE IF \E c \in IsoNamed(lower(text)) : IsoCases[c].ord # 0 THEN \E c \in IsoNamed(lower(text)) : target_date.ord = IsoCases[c].ord ELSE IF NamedWeekdays(lower(text)) # {} THEN target_date.ord - now.ord \in 1..7 /\ WeekdayOfOrd(target_date.ord) \in NamedWeekdays(lower(text)) ELSE target_date = NoDate /\ reply.kind = "MissingDate"

C8_Witness == pc = "replied" /\ IsoNamed(lower(text)) = {9} /\ NamedWeekdays(lower(text)) = {4} /\ WeekdayOfOrd(target_date.ord) = 4 /\ reply.kind # "MissingDate"

(***************************************************************************)
(* The sheet as the properties read it: the week block in effect for a key *)
(* is the run of rows after the last marker row with that key, up to the   *)
(* next marker row; a marker row is not a day row.                         *)
(***************************************************************************)
IsMarkerRow(r) == startswith(strip(df[r][1]), WEEK)

BlockStart(wk) == IF \E r \in 1..Len(df) : IsMarkerRow(r) /\ strip(df[r][1]) = wk THEN CHOOSE r \in 1..Len(df) : IsMarkerRow(r) /\ strip(df[r][1]) = wk /\ \A m \in (r + 1)..Len(df) : ~(IsMarkerRow(m) /\ strip(df[m][1]) = wk) ELSE 0

BlockRows(wk) == IF BlockStart(wk) = 0 THEN {} ELSE {r \in (BlockStart(wk) + 1)..Len(df) : \A m \in (BlockStart(wk) + 1)..r : ~IsMarkerRow(m)}

DayRows(wk, day) == {r \in BlockRows(wk) : capitalize(strip(df[r][3])) = day}

SpecialCells(r) == {c \in 4..7 : upper(strip(df[r][c])) \in SPECIAL_LABELS}

SpecialRows(wk, day) == {r \in DayRows(wk, day) : SpecialCells(r) # {}}

\* week key and weekday name of the query's date
QueryWeek == ExpectedWeekKeys[((target_date.ord - TermFirst) \div 7) + 1]

QueryDay == WeekdayNames[WeekdayOfOrd(target_date.ord) + 1]

LastSpecialRow == CHOOSE r \in SpecialRows(QueryWeek, QueryDay) : \A m \in SpecialRows(QueryWeek, QueryDay) : m <= r

FirstSpecialCell(r) == CHOOSE c \in SpecialCells(r) : \A e \in SpecialCells(r) : c <= e

\* C3 as stated: whenever a day row of the week block has a slot cell that is
\* a special label, the reply for that day is SpecialDay with that label, for
\* every section.
C3_EverySpecialCellShown == (Answered /\ InTerm) => \A r \in SpecialRows(QueryWeek, QueryDay) : \A c \in SpecialCells(r) : reply.kind = "SpecialDay" /\ reply.label = strip(df[r][c])

\* C3: when a day row of the week block in effect has a slot cell that is a
\* special label, the reply for that day is SpecialDay for every section and
\* never a RegularDay, whatever the other cells and the other rows of that
\* day; the label shown is the first special cell (trimmed, letter case kept)
\* of the last such row.
C3_SpecialDayExclusive == (Answered /\ InTerm /\ SpecialRows(QueryWeek, QueryDay) # {}) => reply.kind = "SpecialDay" /\ reply.label = strip(df[LastSpecialRow][FirstSpecialCell(LastSpecialRow)])

C3_Witness == Answered /\ InTerm /\ reply.kind = "SpecialDay" /\ \E r \in SpecialRows(QueryWeek, QueryDay) : \E m \in DayRows(QueryWeek, QueryDay) : m > r /\ SpecialCells(m) = {} /\ df[m][4] # <<>>

\* C6 as stated: a date of the term whose week key or whose weekday has no entry is answered NoData.
C6_MissingEntryNoData == (Answered /\ InTerm /\ (QueryWeek \notin DOMAIN timetable_data \/ QueryDay \notin DOMAIN timetable_data[QueryWeek])) => reply.kind = "NoData"

\* C6: for a date of the term and any section, NoData is the reply when the
\* timetable has no entry for the week key; when it has the week but no entry
\* for the weekday the reply is the all-periods-free RegularDay notice, never
\* a SpecialDay.
C6_MissingEntry == (Answered /\ InTerm) => /\ (QueryWeek \notin DOMAIN timetable_data => reply.kind = "NoData")
                                           /\ ((QueryWeek \in DOMAIN timetable_data /\ QueryDay \notin DOMAIN timetable_data[QueryWeek]) => (reply.kind = "RegularDay" /\ reply.all_free /\ reply.lines = <<>>))

C6_Witness == Answered /\ InTerm /\ QueryWeek \in DOMAIN timetable_data /\ QueryDay \notin DOMAIN timetable_data[QueryWeek] /\ reply.kind = "RegularDay" /\ reply.all_free

\* C9: no day entry of the parsed timetable holds both a special marker and
\* per-section slot data.
C9_SpecialOrRegular == \A wk \in DOMAIN timetable_data : \A d \in DOMAIN timetable_data[wk] : ~(timetable_data[wk][d].special # None /\ DOMAIN timetable_data[wk][d].secs # {})

\* the subjects a pool row holds for a section and a slot, read off the row by hand
ExpectedCellSubjects(row, sec, slot) == CASE row = RowExample /\ sec = "1" /\ slot = 1 -> << <<"M","A","T","H">> >>
                                          [] row = RowExample /\ sec = "1" /\ slot = 3 -> << <<"C","H","E","M">> >>
                                          [] row = RowExample /\ sec = "2" /\ slot = 3 -> << <<"P","H","Y">> >>
                                          [] row = RowMixed /\ sec = "1" /\ slot = 1 -> << <<"M","A","T","H">>, <<"M","A","T","H">> >>
                                          [] row = RowMixed /\ sec = "2" /\ slot = 4 -> << <<"C","S">> >>
                                          [] row = RowTuesday /\ sec = "3" /\ slot = 2 -> << <<"A","R","T">> >>
                                          [] OTHER -> <<>>

\* the subjects of the day's rows in row order
RECURSIVE ExpectedSubjects(_, _, _, _)
ExpectedSubjects(rows, r, sec, slot) == IF r > Len(df) THEN <<>> ELSE (IF r \in rows THEN ExpectedCellSubjects(df[r], sec, slot) ELSE <<>>) \o ExpectedSubjects(rows, r + 1, sec, slot)

Expected(slot) == ExpectedSubjects(DayRows(QueryWeek, QueryDay), 1, section, slot)

ExpectedTimes == IF section \in {"1", "3", "5"} THEN SLOT_TIMES.A ELSE SLOT_TIMES.B

====
